---- MODULE Spec2Model ----
(***************************************************************************)
(* Model of app.py: the CollisionAvoidanceSystem class (calculate_ttc,     *)
(* calculate_avoidance_maneuver, simulate_avoidance), the module-level     *)
(* instance cas_system, the shared random source of the random module and  *)
(* the Flask handler calculate_collision.                                  *)
(*                                                                         *)
(* Numbers.  Python floats are modelled as exact rationals <<n, d>> in     *)
(* lowest terms with d > 0; float('inf') is <<1, 0>>.  NaN, overflow to    *)
(* infinity and the half-ulp error of float arithmetic are outside the     *)
(* model.  The one place where the binary representation decides a result  *)
(* is round(x, 2) on a decimal tie, see round2.                            *)
(***************************************************************************)
EXTENDS Integers, Sequences, FiniteSets, TLC

VARIABLES
    cas_system,   \* the module-level CollisionAvoidanceSystem instance (app.py:82)
    rng,          \* state of the random module's shared generator
    last,         \* the last direct call of a method of cas_system, with its result
    req           \* per worker thread: the locals of calculate_collision

vars == <<cas_system, rng, last, req>>

----------------------------------------------------------------------------
(* Exact rational arithmetic standing for float arithmetic.                 *)

Abs(n) == IF n < 0 THEN -n ELSE n

RECURSIVE Gcd(_, _)
Gcd(a, b) == IF b = 0 THEN a ELSE Gcd(b, a % b)

\* n/d in lowest terms with a positive denominator (d # 0).
Norm(n, d) ==
    LET s == IF d < 0 THEN -1 ELSE 1
        g == Gcd(Abs(n), Abs(d))
    IN  IF g = 0 THEN <<0, 1>> ELSE <<(s * n) \div g, (s * d) \div g>>

Num(n) == <<n, 1>>

\* float('inf') (app.py:16)
Inf == <<1, 0>>

IsInf(x) == x[2] = 0

RAdd(x, y) == Norm(x[1] * y[2] + y[1] * x[2], x[2] * y[2])
RSub(x, y) == Norm(x[1] * y[2] - y[1] * x[2], x[2] * y[2])
RMul(x, y) == Norm(x[1] * y[1], x[2] * y[2])
\* x / y for finite x and y # 0
RDiv(x, y) == Norm(x[1] * y[2], x[2] * y[1])
\* comparisons; they are also right when one side is Inf
RLe(x, y) == x[1] * y[2] <= y[1] * x[2]
RLt(x, y) == x[1] * y[2] < y[1] * x[2]
RAbs(x) == <<Abs(x[1]), x[2]>>
\* Python's min(x, y): y only when y < x
RMin(x, y) == IF RLt(y, x) THEN y ELSE x

IsPow2(d) == \E k \in 0..30 : d = 2 ^ k

\* the largest e with 2^e <= p/q, for p, q > 0
RECURSIVE Log2Floor(_, _)
Log2Floor(p, q) ==
    IF p < q THEN Log2Floor(2 * p, q) - 1
    ELSE IF p >= 2 * q THEN Log2Floor(p, 2 * q) + 1
    ELSE 0

\* 2^k mod q
RECURSIVE PowMod2(_, _)
PowMod2(k, q) == IF k = 0 THEN 1 % q ELSE (2 * PowMod2(k - 1, q)) % q

\* Whether the double nearest to x > 0 lies above x, for an x that no double
\* holds (its denominator is not a power of two).  A double has a 53-bit
\* significand: with 2^e <= x < 2^(e+1) it is a multiple of 2^(e-52), and
\* the nearest one lies above x when the fractional part of x * 2^(52-e)
\* exceeds 1/2 (it is never 1/2 for such an x).
FloatAbove(x) ==
    LET k == 52 - Log2Floor(x[1], x[2])
        r == ((x[1] % x[2]) * PowMod2(k, x[2])) % x[2]
    IN  2 * r > x[2]

\* round(x, 2) for x >= 0, see round2
round2_pos(x) ==
    LET s == 100 * x[1]
        f == s \div x[2]
        r == s - f * x[2]
    IN  IF 2 * r < x[2] THEN Norm(f, 100)
        ELSE IF 2 * r > x[2] THEN Norm(f + 1, 100)
        ELSE IF IsPow2(x[2])
             THEN (IF f % 2 = 0 THEN Norm(f, 100) ELSE Norm(f + 1, 100))
             ELSE (IF FloatAbove(x) THEN Norm(f + 1, 100) ELSE Norm(f, 100))

\* round(x, 2) (app.py:50, 114, 115).  Python rounds the double correctly to
\* the nearest multiple of 0.01.  When x lies exactly halfway between two
\* of them: a value with a power-of-two denominator is held exactly by the
\* double and goes to the even neighbour; any other halfway value is not
\* representable, the double lies a little above or below it, and the
\* result follows the double.  Rounding is symmetric in the sign, and
\* round(inf, 2) is inf.
round2(x) ==
    IF IsInf(x) THEN x
    ELSE IF x[1] < 0
         THEN LET y == round2_pos(<<-x[1], x[2]>>) IN <<-y[1], y[2]>>
         ELSE round2_pos(x)

----------------------------------------------------------------------------
(* The random module: one generator shared by every thread.                 *)

\* number of states of the modelled generator
RngPeriod == 6

\* random.random(): the value the generator yields in state s.  The values
\* 0, 1/2, 3/4, 7/8, 15/16, 31/32, ... are multiples of 2^-53 in [0, 1), as
\* every value of random.random() is; they lie on both sides of every
\* success probability between 0.7 and 0.95.
random(s) == Norm(2 ^ s - 1, 2 ^ s)

\* the generator's state after one draw
rng_next(s) == (s + 1) % RngPeriod

\* random.uniform(a, b) == a + (b - a) * random()
uniform(a, b, s) == RAdd(Num(a), RMul(Num(b - a), random(s)))

----------------------------------------------------------------------------
(* class CollisionAvoidanceSystem                                           *)

\* __init__ (app.py:9-11)
critical_ttc_threshold == 10
trigger_distance == 500

CollisionAvoidanceSystem ==
    [critical_ttc_threshold |-> Num(critical_ttc_threshold),
     trigger_distance |-> Num(trigger_distance)]

\* calculate_ttc with its result rounded to 2 digits
calculate_ttc_rounded(self, distance, speed_a, speed_b) ==
    IF RLe(RAdd(speed_a, speed_b), Num(0))
    THEN Inf
    ELSE round2(RDiv(distance, RAdd(speed_a, speed_b)))

\* app.py:13-17
calculate_ttc(self, distance, speed_a, speed_b) ==
    IF RLe(RAdd(speed_a, speed_b), Num(0))
    THEN Inf
    ELSE RDiv(distance, RAdd(speed_a, speed_b))

\* alert_level_of with the bound 5 exclusive
alert_level_of_strict(ttc) == IF RLt(ttc, Num(5)) THEN "critical" ELSE "warning"

\* app.py:31-34
alert_level_of(ttc) == IF RLe(ttc, Num(5)) THEN "critical" ELSE "warning"

\* maneuvers_of with the tie given to vehicle B
maneuvers_of_tie_b(car_a, car_b) ==
    <<"Both vehicles reduce speed immediately">> \o
    (IF RLt(car_b.speed, car_a.speed)
     THEN <<"Vehicle A: Steer right onto shoulder",
            "Vehicle B: Maintain course, prepare to brake">>
     ELSE <<"Vehicle B: Steer left onto shoulder",
            "Vehicle A: Maintain course, prepare to brake">>)

\* app.py:30, 37-45
maneuvers_of(car_a, car_b) ==
    <<"Both vehicles reduce speed immediately">> \o
    (IF RLe(car_b.speed, car_a.speed)
     THEN <<"Vehicle A: Steer right onto shoulder",
            "Vehicle B: Maintain course, prepare to brake">>
     ELSE <<"Vehicle B: Steer left onto shoulder",
            "Vehicle A: Maintain course, prepare to brake">>)

\* calculate_avoidance_maneuver with the ttc rounded to 1 digit
calculate_avoidance_maneuver_1digit(self, car_a, car_b, ttc) ==
    IF RLt(self.critical_ttc_threshold, ttc)
    THEN [status |-> "safe",
          alert_level |-> "none",
          advice |-> "Maintain safe distance"]
    ELSE [status |-> "collision_imminent",
          alert_level |-> alert_level_of(ttc),
          ttc |-> LET y == round2(<<ttc[1], 10 * ttc[2]>>) IN Norm(10 * y[1], y[2]),
          maneuvers |-> maneuvers_of(car_a, car_b),
          safe_maneuver_applied |-> TRUE]

\* app.py:19-53
calculate_avoidance_maneuver(self, car_a, car_b, ttc) ==
    IF RLt(self.critical_ttc_threshold, ttc)
    THEN [status |-> "safe",
          alert_level |-> "none",
          advice |-> "Maintain safe distance"]
    ELSE [status |-> "collision_imminent",
          alert_level |-> alert_level_of(ttc),
          ttc |-> round2(ttc),
          maneuvers |-> maneuvers_of(car_a, car_b),
          safe_maneuver_applied |-> TRUE]

\* success_probability without the cap of 0.95
success_probability_uncapped(avoidance_data) ==
    RAdd(<<7, 10>>, RDiv(avoidance_data.ttc, Num(20)))

\* app.py:66
success_probability(avoidance_data) ==
    RMin(<<19, 20>>, RAdd(<<7, 10>>, RDiv(avoidance_data.ttc, Num(20))))

\* simulate_avoidance with the safe clearance drawn from [5, 100]
simulate_avoidance_band(self, car_a, car_b, avoidance_data, s1, s2) ==
    IF avoidance_data.status = "safe"
    THEN [collision_avoided |-> TRUE,
          min_distance |-> uniform(5, 100, s1),
          outcome |-> "Safe passage"]
    ELSE IF RLt(random(s1), success_probability(avoidance_data))
         THEN [collision_avoided |-> TRUE,
               min_distance |-> uniform(5, 20, s2),
               outcome |-> "Close call - collision avoided"]
         ELSE [collision_avoided |-> FALSE,
               min_distance |-> Num(0),
               outcome |-> "COLLISION OCCURRED"]

\* simulate_avoidance with the draw compared by <=
simulate_avoidance_le(self, car_a, car_b, avoidance_data, s1, s2) ==
    IF avoidance_data.status = "safe"
    THEN [collision_avoided |-> TRUE,
          min_distance |-> uniform(50, 100, s1),
          outcome |-> "Safe passage"]
    ELSE IF RLe(random(s1), success_probability(avoidance_data))
         THEN [collision_avoided |-> TRUE,
               min_distance |-> uniform(5, 20, s2),
               outcome |-> "Close call - collision avoided"]
         ELSE [collision_avoided |-> FALSE,
               min_distance |-> Num(0),
               outcome |-> "COLLISION OCCURRED"]

\* app.py:55-80.  s1 is the generator's state at the first draw of the call
\* and s2 its state at the second (only the avoided branch draws twice).
simulate_avoidance(self, car_a, car_b, avoidance_data, s1, s2) ==
    IF avoidance_data.status = "safe"
    THEN [collision_avoided |-> TRUE,
          min_distance |-> uniform(50, 100, s1),
          outcome |-> "Safe passage"]
    ELSE IF RLt(random(s1), success_probability(avoidance_data))
         THEN [collision_avoided |-> TRUE,
               min_distance |-> uniform(5, 20, s2),
               outcome |-> "Close call - collision avoided"]
         ELSE [collision_avoided |-> FALSE,
               min_distance |-> Num(0),
               outcome |-> "COLLISION OCCURRED"]

\* how many draws the call that returns simulation_result has made
\* (app.py:61, 67, 70): a second one only on the avoided branch
draws_of(avoidance_data, simulation_result) ==
    IF avoidance_data.status = "safe" THEN 1
    ELSE IF simulation_result.collision_avoided THEN 2 ELSE 1

----------------------------------------------------------------------------
(* Direct calls of the three methods of cas_system, one at a time.          *)

\* bounds of the inputs of the direct calls
MaxDistance == 12
MaxSpeed == 3
TtcWindow == 6

UnitDistances == {Num(n) : n \in -MaxDistance..MaxDistance}
UnitSpeeds == {Num(n) : n \in -MaxSpeed..MaxSpeed}

\* ttc arguments, in thousandths of a second: a window around each centre
\* (the thresholds 5 and 10, decimal ties 0.125, 0.375, 2.665, 2.675, 5.005,
\* a negative ttc and a ttc far above the threshold), and float('inf')
TtcCentres == {-20000, 0, 125, 375, 1000, 2500, 2665, 2675, 5000, 10000, 12000}
UnitTtcs ==
    {Inf} \cup {Norm(c + k, 1000) : c \in TtcCentres, k \in -TtcWindow..TtcWindow}

UnitCars == {[speed |-> Num(n), position |-> Num(0)] : n \in {-5, 10, 15}}

\* the advice records calculate_avoidance_maneuver returns on these inputs
UnitAdvice ==
    {calculate_avoidance_maneuver(cas_system, a, b, t) :
        a \in UnitCars, b \in UnitCars, t \in UnitTtcs}

NoCall == [op |-> "none"]

\* cas_system.calculate_ttc(distance, speed_a, speed_b)
CallTtc ==
    /\ last = NoCall
    /\ \E distance \in UnitDistances, speed_a \in UnitSpeeds, speed_b \in UnitSpeeds :
         last' = [op |-> "calculate_ttc",
                  distance |-> distance, speed_a |-> speed_a, speed_b |-> speed_b,
                  ret |-> calculate_ttc(cas_system, distance, speed_a, speed_b)]
    /\ UNCHANGED <<cas_system, rng, req>>

\* cas_system.calculate_avoidance_maneuver(car_a, car_b, ttc)
CallManeuver ==
    /\ last = NoCall
    /\ \E car_a \in UnitCars, car_b \in UnitCars, ttc \in UnitTtcs :
         last' = [op |-> "calculate_avoidance_maneuver",
                  car_a |-> car_a, car_b |-> car_b, ttc |-> ttc,
                  ret |-> calculate_avoidance_maneuver(cas_system, car_a, car_b, ttc)]
    /\ UNCHANGED <<cas_system, rng, req>>

\* cas_system.simulate_avoidance(car_a, car_b, avoidance_data): the draws
\* of one call follow each other in a single thread
CallSimulate ==
    /\ last = NoCall
    /\ \E avoidance_data \in UnitAdvice :
         LET car == [speed |-> Num(10), position |-> Num(0)]
             ret == simulate_avoidance(cas_system, car, car,
                                       avoidance_data, rng, rng_next(rng))
         IN  /\ last' = [op |-> "simulate_avoidance",
                         avoidance_data |-> avoidance_data,
                         s1 |-> rng,
                         ret |-> ret]
             /\ rng' = IF draws_of(avoidance_data, ret) = 2
                       THEN rng_next(rng_next(rng))
                       ELSE rng_next(rng)
    /\ UNCHANGED <<cas_system, req>>

\* the call returns to its caller
Return ==
    /\ last # NoCall
    /\ last' = NoCall
    /\ UNCHANGED <<cas_system, rng, req>>

Idle == [pc |-> "idle"]

InitShared ==
    /\ cas_system = CollisionAvoidanceSystem
    /\ rng \in 0..(RngPeriod - 1)
    /\ last = NoCall

InitUnit == InitShared /\ req = [w \in {1} |-> Idle]

NextUnit == CallTtc \/ CallManeuver \/ CallSimulate \/ Return

SpecUnit == InitUnit /\ [][NextUnit]_vars

----------------------------------------------------------------------------
(* POST /api/calculate-collision: the handler calculate_collision, run by   *)
(* one thread per request.                                                  *)

\* parsed JSON values: what request.json yields for a well-formed body
JNumber(q) == [type |-> "number", num |-> q]
JString == [type |-> "string"]
JArray == [type |-> "array"]
JNull == [type |-> "null"]
JObject(fields) == [type |-> "object", fields |-> fields]

Keys == {"speed_a", "position_a", "speed_b", "position_b"}

\* marks a key the body does not hold
Missing == [type |-> "missing"]

\* the JSON object holding the keys whose choice is not Missing
ObjectOf(choice) ==
    JObject([k \in {k \in Keys : choice[k] # Missing} |-> choice[k]])

\* values a request gives to a speed and to the two positions
SpeedChoices == {Missing, JString, JNumber(Num(-20)), JNumber(Num(10)), JNumber(Num(30))}
PositionAChoices == {Missing, JString, JNumber(Num(-100))}
PositionBChoices ==
    {Missing, JString, JNumber(Num(-300)), JNumber(Num(100)), JNumber(Num(200)),
     JNumber(<<1251, 25>>)}

\* the well-formed request bodies of the sequential specification
Bodies ==
    {JArray, JString, JNull} \cup
    {ObjectOf([speed_a |-> sa, position_a |-> pa, speed_b |-> sb, position_b |-> pb]) :
        sa \in SpeedChoices, pa \in PositionAChoices,
        sb \in SpeedChoices, pb \in PositionBChoices}

\* the request bodies of the concurrent specification: the defaults (safe),
\* ttc = 5 (critical) and ttc = 10 (warning)
ConcBodies ==
    {ObjectOf([k \in Keys |-> Missing]),
     ObjectOf([speed_a |-> JNumber(Num(30)), position_a |-> Missing,
               speed_b |-> JNumber(Num(10)), position_b |-> JNumber(Num(200))]),
     ObjectOf([speed_a |-> JNumber(Num(10)), position_a |-> Missing,
               speed_b |-> Missing, position_b |-> JNumber(Num(100))])}

\* data.get(key, default) on a dict (app.py:93-99)
get(data, key, default) ==
    IF key \in DOMAIN data.fields THEN data.fields[key] ELSE JNumber(Num(default))

IsNumber(v) == v.type = "number"

\* an unhandled exception: Flask answers 500
Raise(l, exception, line) ==
    [pc |-> "error", data |-> l.data, http_status |-> 500,
     exception |-> exception, line |-> line]

\* the distance without the absolute value
distance_signed(car_a, car_b) == RSub(car_b.position, car_a.position)

\* app.py:102
distance_of(car_a, car_b) == RAbs(RSub(car_b.position, car_a.position))

\* app.py:90: data = request.json
Receive(w, body) ==
    /\ req[w].pc = "idle"
    /\ req' = [req EXCEPT ![w] = [pc |-> "received", data |-> body]]
    /\ UNCHANGED <<cas_system, rng, last>>

\* app.py:92-105: car_a, car_b, distance and ttc; all of it local to the
\* request.  data.get fails on a list, a str or None (AttributeError);
\* the subtraction of line 102 and the sum of line 15 (or its comparison
\* with 0) fail on a value that is not a number (TypeError).
PrepareLocals(l) ==
    IF l.data.type # "object"
    THEN Raise(l, "AttributeError", 93)
    ELSE LET speed_a == get(l.data, "speed_a", 0)
             position_a == get(l.data, "position_a", 0)
             speed_b == get(l.data, "speed_b", 0)
             position_b == get(l.data, "position_b", 500)
         IN  IF ~(IsNumber(position_a) /\ IsNumber(position_b))
             THEN Raise(l, "TypeError", 102)
             ELSE IF ~(IsNumber(speed_a) /\ IsNumber(speed_b))
             THEN Raise(l, "TypeError", 15)
             ELSE LET car_a == [speed |-> speed_a.num, position |-> position_a.num]
                      car_b == [speed |-> speed_b.num, position |-> position_b.num]
                      distance == distance_of(car_a, car_b)
                  IN  [pc |-> "prepared",
                       data |-> l.data,
                       car_a |-> car_a,
                       car_b |-> car_b,
                       distance |-> distance,
                       ttc |-> calculate_ttc(cas_system, distance,
                                             speed_a.num, speed_b.num)]

Prepare(w) ==
    /\ req[w].pc = "received"
    /\ req' = [req EXCEPT ![w] = PrepareLocals(req[w])]
    /\ UNCHANGED <<cas_system, rng, last>>

\* Advise keeping the request's ttc on the shared instance as its threshold
Advise_shared(w) ==
    /\ req[w].pc = "prepared"
    /\ req' = [req EXCEPT ![w] =
                 [pc |-> "advised",
                  avoidance_data |->
                      calculate_avoidance_maneuver(cas_system, req[w].car_a,
                                                   req[w].car_b, req[w].ttc)]
                 @@ req[w]]
    /\ cas_system' = [cas_system EXCEPT !.critical_ttc_threshold =
                         IF IsInf(req[w].ttc) THEN @ ELSE req[w].ttc]
    /\ UNCHANGED <<rng, last>>

\* app.py:108: reads cas_system.critical_ttc_threshold
Advise(w) ==
    /\ req[w].pc = "prepared"
    /\ req' = [req EXCEPT ![w] =
                 [pc |-> "advised",
                  avoidance_data |->
                      calculate_avoidance_maneuver(cas_system, req[w].car_a,
                                                   req[w].car_b, req[w].ttc)]
                 @@ req[w]]
    /\ UNCHANGED <<cas_system, rng, last>>

\* app.py:111, to the first draw of simulate_avoidance (line 61 or 67).
\* Another thread may draw before this one draws again at line 70.
SimulateFirst(w) ==
    /\ req[w].pc = "advised"
    /\ rng' = rng_next(rng)
    /\ LET first == simulate_avoidance(cas_system, req[w].car_a, req[w].car_b,
                                       req[w].avoidance_data, rng, rng)
       IN  req' = [req EXCEPT ![w] =
                     IF draws_of(req[w].avoidance_data, first) = 2
                     THEN [pc |-> "drawing", s1 |-> rng] @@ req[w]
                     ELSE [pc |-> "simulated", simulation_result |-> first]
                          @@ req[w]]
    /\ UNCHANGED <<cas_system, last>>

\* app.py:70-80: the second draw, of the close-call distance; the value of
\* the first draw is not kept
SimulateSecond(w) ==
    /\ req[w].pc = "drawing"
    /\ rng' = rng_next(rng)
    /\ req' = [req EXCEPT ![w] =
                 [pc |-> "simulated",
                  simulation_result |->
                      simulate_avoidance(cas_system, req[w].car_a, req[w].car_b,
                                         req[w].avoidance_data, req[w].s1, rng)]
                 @@ [k \in DOMAIN req[w] \ {"s1"} |-> req[w][k]]]
    /\ UNCHANGED <<cas_system, last>>

\* app.py:113-122
Respond(w) ==
    /\ req[w].pc = "simulated"
    /\ req' = [req EXCEPT ![w] =
                 [pc |-> "done",
                  http_status |-> 200,
                  response |-> [distance |-> round2(req[w].distance),
                                ttc |-> round2(req[w].ttc),
                                avoidance_advice |-> req[w].avoidance_data,
                                simulation_result |-> req[w].simulation_result,
                                car_a |-> req[w].car_a,
                                car_b |-> req[w].car_b]]
                 @@ req[w]]
    /\ UNCHANGED <<cas_system, rng, last>>

\* the answer (200 or 500) is sent and the thread takes the next request
Finish(w) ==
    /\ req[w].pc \in {"done", "error"}
    /\ req' = [req EXCEPT ![w] = Idle]
    /\ UNCHANGED <<cas_system, rng, last>>

\* number of threads handling requests at once
NumWorkers == 2

Init == InitShared /\ req = [w \in {1} |-> Idle]

Next ==
    \/ \E body \in Bodies : Receive(1, body)
    \/ Prepare(1)
    \/ Advise(1)
    \/ SimulateFirst(1)
    \/ SimulateSecond(1)
    \/ Respond(1)
    \/ Finish(1)

\* one request at a time
Spec == Init /\ [][Next]_vars

InitConc == InitShared /\ req = [w \in 1..NumWorkers |-> Idle]

NextConc ==
    \/ \E w \in 1..NumWorkers, body \in ConcBodies : Receive(w, body)
    \/ \E w \in 1..NumWorkers : Prepare(w)
    \/ \E w \in 1..NumWorkers : Advise(w)
    \/ \E w \in 1..NumWorkers : SimulateFirst(w)
    \/ \E w \in 1..NumWorkers : SimulateSecond(w)
    \/ \E w \in 1..NumWorkers : Respond(w)
    \/ \E w \in 1..NumWorkers : Finish(w)

\* NumWorkers requests handled concurrently
SpecConc == InitConc /\ [][NextConc]_vars

----------------------------------------------------------------------------
(* Properties.                                                              *)

IsCall(op) == last.op = op

Imminent(avoidance_data) == avoidance_data.status = "collision_imminent"

\* C1: calculate_ttc returns float('inf') exactly when
\* speed_a + speed_b <= 0, and otherwise the unrounded quotient
\* distance / (speed_a + speed_b): the result times the sum is the distance.
C1_TtcExact ==
    IsCall("calculate_ttc") =>
        LET sum == RAdd(last.speed_a, last.speed_b)
        IN  /\ IsInf(last.ret) <=> sum[1] <= 0
            /\ sum[1] > 0 => RMul(last.ret, sum) = last.distance

\* a call whose quotient 7/3 has no 2-digit decimal form
C1_Witness ==
    /\ IsCall("calculate_ttc")
    /\ last.distance = Num(7)
    /\ RAdd(last.speed_a, last.speed_b) = Num(3)
    /\ last.ret = <<7, 3>>

\* C2: the advice is safe with alert_level none exactly when ttc > 10,
\* warning exactly when 5 < ttc <= 10, critical exactly when ttc <= 5, and
\* collision_imminent exactly when the alert level is warning or critical.
C2_AlertTiers ==
    IsCall("calculate_avoidance_maneuver") =>
        LET ttc == last.ttc
            ret == last.ret
        IN  /\ ret.status = "safe" <=> RLt(Num(10), ttc)
            /\ ret.alert_level = "none" <=> RLt(Num(10), ttc)
            /\ ret.alert_level = "warning" <=> (RLt(Num(5), ttc) /\ RLe(ttc, Num(10)))
            /\ ret.alert_level = "critical" <=> RLe(ttc, Num(5))
            /\ ret.status = "collision_imminent"
                   <=> ret.alert_level \in {"warning", "critical"}
            /\ ret.status \in {"safe", "collision_imminent"}

\* ttc = 5 exactly is critical
C2_Witness ==
    /\ IsCall("calculate_avoidance_maneuver")
    /\ last.ttc = Num(5)
    /\ last.ret.alert_level = "critical"
    /\ last.ret.status = "collision_imminent"

\* C3: a collision_imminent advice lists at least 3 maneuvers, the common
\* slow-down first, then the instruction of the vehicle that steers (A to the
\* right when car_a.speed >= car_b.speed, else B to the left) and that of the
\* vehicle that holds course; a safe advice has no maneuvers list.
C3_Maneuvers ==
    IsCall("calculate_avoidance_maneuver") =>
        LET ret == last.ret
            a_steers == RLe(last.car_b.speed, last.car_a.speed)
        IN  /\ Imminent(ret) =>
                /\ Len(ret.maneuvers) >= 3
                /\ ret.maneuvers[1] = "Both vehicles reduce speed immediately"
                /\ a_steers =>
                     /\ ret.maneuvers[2] = "Vehicle A: Steer right onto shoulder"
                     /\ ret.maneuvers[3] = "Vehicle B: Maintain course, prepare to brake"
                /\ ~a_steers =>
                     /\ ret.maneuvers[2] = "Vehicle B: Steer left onto shoulder"
                     /\ ret.maneuvers[3] = "Vehicle A: Maintain course, prepare to brake"
            /\ ret.status = "safe" => "maneuvers" \notin DOMAIN ret

\* equal speeds: vehicle A steers
C3_Witness ==
    /\ IsCall("calculate_avoidance_maneuver")
    /\ Imminent(last.ret)
    /\ last.car_a.speed = last.car_b.speed
    /\ last.ret.maneuvers[2] = "Vehicle A: Steer right onto shoulder"

\* the locals of a request that has reached the given steps
At(w, pcs) == req[w].pc \in pcs

Computed == {"prepared", "advised", "drawing", "simulated", "done"}
Advised == {"advised", "drawing", "simulated", "done"}
Simulated == {"simulated", "done"}

\* C4: a request whose ttc is above 10 or infinite gets a safe advice, and
\* from a safe advice simulate_avoidance returns, whatever the generator
\* yields, collision_avoided = true, "Safe passage" and a min_distance in
\* [50, 100]; it makes no second draw and the response carries that result.
C4_SafePassage ==
    \A w \in DOMAIN req :
        /\ At(w, Advised) /\ RLt(Num(10), req[w].ttc)
               => req[w].avoidance_data.status = "safe"
        /\ At(w, {"drawing"}) => req[w].avoidance_data.status # "safe"
        /\ At(w, Simulated) /\ req[w].avoidance_data.status = "safe" =>
               /\ req[w].simulation_result.collision_avoided = TRUE
               /\ req[w].simulation_result.outcome = "Safe passage"
               /\ RLe(Num(50), req[w].simulation_result.min_distance)
               /\ RLe(req[w].simulation_result.min_distance, Num(100))
        /\ At(w, {"done"}) =>
               req[w].response.simulation_result = req[w].simulation_result

\* both speeds 0: ttc infinite, answered with a safe passage
C4_Witness ==
    /\ At(1, {"done"})
    /\ req[1].car_a.speed = Num(0)
    /\ req[1].car_b.speed = Num(0)
    /\ IsInf(req[1].ttc)
    /\ req[1].response.simulation_result.outcome = "Safe passage"

\* C5: on a collision_imminent advice and a draw d, the collision is avoided
\* exactly when d < 0.95 and d < 0.7 + ttc/20 (ttc the advice's field); then
\* min_distance is in [5, 20] with the close-call text, else it is 0 with
\* "COLLISION OCCURRED".  In every outcome collision_avoided is false exactly
\* when min_distance is 0.
C5_Outcome ==
    IsCall("simulate_avoidance") =>
        LET adv == last.avoidance_data
            ret == last.ret
            d == random(last.s1)
        IN  /\ Imminent(adv) =>
                /\ ret.collision_avoided
                     <=> (20 * d[1] < 19 * d[2]
                          /\ RLt(RMul(Num(20), d), RAdd(Num(14), adv.ttc)))
                /\ ret.collision_avoided =>
                     /\ RLe(Num(5), ret.min_distance)
                     /\ RLe(ret.min_distance, Num(20))
                     /\ ret.outcome = "Close call - collision avoided"
                /\ ~ret.collision_avoided =>
                     /\ ret.min_distance = Num(0)
                     /\ ret.outcome = "COLLISION OCCURRED"
            /\ ~ret.collision_avoided <=> ret.min_distance = Num(0)

\* a draw equal to the success probability (ttc = 1, d = 0.75): a collision
C5_Witness ==
    /\ IsCall("simulate_avoidance")
    /\ Imminent(last.avoidance_data)
    /\ last.avoidance_data.ttc = Num(1)
    /\ random(last.s1) = <<3, 4>>
    /\ last.ret.outcome = "COLLISION OCCURRED"

\* C6: the success probability never exceeds 0.95, is 0.95 at ttc = 10, and
\* does not decrease when the advice's ttc grows; on every collision_imminent
\* advice a draw of 0.95 or more gives "COLLISION OCCURRED".
C6_Probability ==
    IsCall("simulate_avoidance") /\ Imminent(last.avoidance_data) =>
        LET adv == last.avoidance_data
            p == success_probability(adv)
        IN  /\ RLe(p, <<19, 20>>)
            /\ adv.ttc = Num(10) => p = <<19, 20>>
            /\ \A other \in UnitAdvice :
                   Imminent(other) /\ RLe(adv.ttc, other.ttc)
                       => RLe(p, success_probability(other))
            /\ RLe(<<19, 20>>, random(last.s1))
                   => last.ret.outcome = "COLLISION OCCURRED"

\* ttc = 10, probability 0.95, draw 31/32: a collision
C6_Witness ==
    /\ IsCall("simulate_avoidance")
    /\ Imminent(last.avoidance_data)
    /\ last.avoidance_data.ttc = Num(10)
    /\ random(last.s1) = <<31, 32>>
    /\ last.ret.outcome = "COLLISION OCCURRED"

\* C7: no well-formed JSON body drives the handler into an error: every
\* request is answered 200 (stated as: no request ends in the error state).
C7_AlwaysOk == \A w \in DOMAIN req : ~At(w, {"error"})

\* C7, the part about the defaults: a body that is an object with numeric
\* values is answered 200 with missing fields at 0, 0, 0, 500.
C7_Defaults ==
    \A w \in DOMAIN req :
        At(w, {"done"}) =>
            /\ req[w].http_status = 200
            /\ "speed_a" \notin DOMAIN req[w].data.fields
                   => req[w].response.car_a.speed = Num(0)
            /\ "position_a" \notin DOMAIN req[w].data.fields
                   => req[w].response.car_a.position = Num(0)
            /\ "speed_b" \notin DOMAIN req[w].data.fields
                   => req[w].response.car_b.speed = Num(0)
            /\ "position_b" \notin DOMAIN req[w].data.fields
                   => req[w].response.car_b.position = Num(500)

\* C8: the handler's distance is never negative, its ttc is infinite or not
\* negative, and so are the ttc of the advice and of the response.
C8_NonNegative ==
    \A w \in DOMAIN req :
        /\ At(w, Computed) =>
               /\ RLe(Num(0), req[w].distance)
               /\ RLe(Num(0), req[w].ttc)
        /\ At(w, Advised) /\ Imminent(req[w].avoidance_data)
               => RLe(Num(0), req[w].avoidance_data.ttc)
        /\ At(w, {"done"}) =>
               /\ RLe(Num(0), req[w].response.distance)
               /\ RLe(Num(0), req[w].response.ttc)

\* a negative speed and a negative position: distance 300, ttc 30
C8_Witness ==
    /\ At(1, {"done"})
    /\ req[1].car_a.speed = Num(-20)
    /\ req[1].car_b.speed = Num(30)
    /\ req[1].car_b.position = Num(-300)
    /\ req[1].distance = Num(300)
    /\ req[1].ttc = Num(30)

\* distance, ttc and advice as the source computes them from a body that is
\* an object of numbers, with the thresholds __init__ sets
Answer(data) ==
    LET car_a == [speed |-> get(data, "speed_a", 0).num,
                  position |-> get(data, "position_a", 0).num]
        car_b == [speed |-> get(data, "speed_b", 0).num,
                  position |-> get(data, "position_b", 500).num]
        distance == distance_of(car_a, car_b)
        ttc == calculate_ttc(CollisionAvoidanceSystem, distance, car_a.speed, car_b.speed)
    IN  [distance |-> round2(distance),
         ttc |-> round2(ttc),
         avoidance_advice |->
             calculate_avoidance_maneuver(CollisionAvoidanceSystem, car_a, car_b, ttc)]

Answered(w) ==
    [distance |-> req[w].response.distance,
     ttc |-> req[w].response.ttc,
     avoidance_advice |-> req[w].response.avoidance_advice]

\* C9: under every interleaving of the threads, the distance, ttc and advice
\* answered to a request are those its own body determines, two requests
\* with the same body get the same ones, and cas_system keeps the thresholds
\* __init__ gave it.
C9_RequestLocal ==
    /\ cas_system = CollisionAvoidanceSystem
    /\ \A w \in DOMAIN req :
           At(w, {"done"}) => Answered(w) = Answer(req[w].data)
    /\ \A v, w \in DOMAIN req :
           At(v, {"done"}) /\ At(w, {"done"}) /\ req[v].data = req[w].data
               => Answered(v) = Answered(w)

\* two threads answer the same body: same advice, different simulation
C9_Witness ==
    /\ At(1, {"done"})
    /\ At(2, {"done"})
    /\ req[1].data = req[2].data
    /\ Imminent(req[1].response.avoidance_advice)
    /\ Answered(1) = Answered(2)
    /\ req[1].response.simulation_result # req[2].response.simulation_result

\* C10 as stated: in a collision_imminent record, critical implies the
\* record's ttc <= 5 and warning implies 5 < the record's ttc <= 10.
C10_RecordAgrees ==
    IsCall("calculate_avoidance_maneuver") /\ Imminent(last.ret) =>
        /\ last.ret.alert_level = "critical" => RLe(last.ret.ttc, Num(5))
        /\ last.ret.alert_level = "warning" =>
               /\ RLt(Num(5), last.ret.ttc)
               /\ RLe(last.ret.ttc, Num(10))

\* C10 amended: the record's ttc is a multiple of 0.01 within 0.005 of the
\* input; critical implies the record's ttc <= 5 and warning implies
\* 5 <= the record's ttc <= 10; a warning record shows 5.0 only for an input
\* above 5 and at most 5.005.
C10_RecordRounded ==
    IsCall("calculate_avoidance_maneuver") /\ Imminent(last.ret) =>
        LET ttc == last.ttc
            shown == last.ret.ttc
        IN  /\ 100 % shown[2] = 0
            /\ RLe(RAbs(RSub(shown, ttc)), <<1, 200>>)
            /\ last.ret.alert_level = "critical" => RLe(shown, Num(5))
            /\ last.ret.alert_level = "warning" =>
                   /\ RLe(Num(5), shown)
                   /\ RLe(shown, Num(10))
                   /\ shown = Num(5) => RLt(Num(5), ttc) /\ RLe(ttc, <<1001, 200>>)

\* ttc = 5.004: a warning whose record shows 5.0
C10_Witness ==
    /\ IsCall("calculate_avoidance_maneuver")
    /\ last.ttc = <<1251, 250>>
    /\ last.ret.alert_level = "warning"
    /\ last.ret.ttc = Num(5)

====
